---- MODULE Spec2Model ----
(***************************************************************************)
(* A model of pydash/api/objects.py: the object helpers (merge, assign,    *)
(* defaults, pick, omit, find_key, for_in, transform, parse_int,           *)
(* update_path, the predicates) over a heap of Python lists and dicts.     *)
(*                                                                         *)
(* Python values are tagged records [t, v]; lists and dicts live in the    *)
(* heap and are reached through references, so that aliasing and in-place  *)
(* mutation are visible.  A dict keeps its pairs in insertion order.       *)
(***************************************************************************)
EXTENDS Integers, Sequences, FiniteSets, TLC

VARIABLES
    heap,    \* the Python heap: a sequence of list/dict objects, address = index
    pc,      \* "call" (arguments built, function not yet run), "iter", "done"
    call,    \* the call in progress: function name and argument values
    ret,     \* what the call produced: [exc, val]
    trace,   \* the callback invocations made so far, in order
    heap0    \* the heap as the caller built it, before the call ran

vars == <<heap, pc, call, ret, trace, heap0>>

----------------------------------------------------------------------------
(* Bounds of the model.                                                    *)

MaxSources == 2
MaxLen == 3
MaxStrLen == 4

----------------------------------------------------------------------------
(* Python values.                                                          *)

None == [t |-> "none", v |-> 0]
PyBool(b) == [t |-> "bool", v |-> IF b THEN 1 ELSE 0]
PyInt(i) == [t |-> "int", v |-> i]
\* A str is the sequence of its characters.
PyStr(s) == [t |-> "str", v |-> s]
Chr(c) == PyStr(<<c>>)
Ref(a) == [t |-> "ref", v |-> a]
PyTrue == PyBool(TRUE)
PyFalse == PyBool(FALSE)

\* Heap objects.
DictObj(items) == [kind |-> "dict", items |-> items]
ListObj(items) == [kind |-> "list", items |-> items]
Pair(k, x) == [key |-> k, val |-> x]

\* Literals of the caller's program, from which the arguments are built.
DictLit(items) == [t |-> "dictlit", v |-> items]
ListLit(items) == [t |-> "listlit", v |-> items]

\* The state threaded through a function body: the heap and the pending exception.
Mach(h) == [heap |-> h, exc |-> "ok"]
Raise(m, e) == [m EXCEPT !.exc = e]

NoRet == [exc |-> "pending", val |-> None]

is_ref(x) == x.t = "ref"
is_list_in(h, x) == is_ref(x) /\ h[x.v].kind = "list"
is_dict_in(h, x) == is_ref(x) /\ h[x.v].kind = "dict"

\* bool(x): the truth value Python gives x.
Truthy(h, x) ==
    CASE x.t = "none" -> FALSE
      [] x.t = "bool" -> x.v = 1
      [] x.t = "int" -> x.v # 0
      [] x.t = "str" -> x.v # <<>>
      [] x.t = "ref" -> h[x.v].items # <<>>
      [] OTHER -> TRUE

RECURSIVE Alloc(_, _)
RECURSIVE AllocSeq(_, _)
\* Evaluating a literal: nested containers are built first, then the outer one.
Alloc(h, lit) ==
    IF lit.t = "listlit" THEN
        LET r == AllocSeq(h, lit.v)
        IN [h |-> Append(r.h, ListObj(r.vals)), val |-> Ref(Len(r.h) + 1)]
    ELSE IF lit.t = "dictlit" THEN
        LET r == AllocSeq(h, [i \in 1..Len(lit.v) |-> lit.v[i].val])
        IN [h |-> Append(r.h, DictObj([i \in 1..Len(lit.v) |->
                                          Pair(lit.v[i].key, r.vals[i])])),
            val |-> Ref(Len(r.h) + 1)]
    ELSE [h |-> h, val |-> lit]

AllocSeq(h, lits) ==
    IF lits = <<>> THEN [h |-> h, vals |-> <<>>]
    ELSE LET a == Alloc(h, Head(lits))
             r == AllocSeq(a.h, Tail(lits))
         IN [h |-> r.h, vals |-> <<a.val>> \o r.vals]

RECURSIVE View(_, _)
\* The content of a value, references followed: what == compares.
View(h, x) ==
    IF ~is_ref(x) THEN x
    ELSE LET o == h[x.v] IN
         IF o.kind = "list"
         THEN [t |-> "list", v |-> [i \in 1..Len(o.items) |-> View(h, o.items[i])]]
         ELSE [t |-> "dict",
               v |-> [k \in {o.items[i].key : i \in 1..Len(o.items)} |->
                        LET i == CHOOSE j \in 1..Len(o.items) : o.items[j].key = k
                        IN View(h, o.items[i].val)]]

RECURSIVE Reach(_, _)
\* The addresses of the containers reachable from a value.
Reach(h, x) ==
    IF ~is_ref(x) THEN {}
    ELSE LET o == h[x.v] IN
         {x.v} \cup UNION { Reach(h, IF o.kind = "list" THEN o.items[i] ELSE o.items[i].val)
                            : i \in 1..Len(o.items) }

----------------------------------------------------------------------------
(* pydash.api.utilities: iterator, get_item, set_item.                     *)

\* The position of key k among a dict's pairs, 0 if absent.
KeyIndex(items, k) ==
    IF \E i \in 1..Len(items) : items[i].key = k
    THEN CHOOSE i \in 1..Len(items) : items[i].key = k
    ELSE 0

\* iterator(obj): the (key, value) pairs of a dict, the (index, value) pairs of a
\* list or of a str's characters, nothing for any other scalar.
iterator(h, x) ==
    IF is_dict_in(h, x) THEN h[x.v].items
    ELSE IF is_list_in(h, x)
    THEN [i \in 1..Len(h[x.v].items) |-> Pair(PyInt(i - 1), h[x.v].items[i])]
    ELSE IF x.t = "str"
    THEN [i \in 1..Len(x.v) |-> Pair(PyInt(i - 1), Chr(x.v[i]))]
    ELSE <<>>

\* get_item(obj, key, default=d): obj[key], d on KeyError, IndexError, TypeError.
get_item(h, x, k, d) ==
    IF is_dict_in(h, x) THEN
        LET i == KeyIndex(h[x.v].items, k)
        IN IF i = 0 THEN d ELSE h[x.v].items[i].val
    ELSE IF is_list_in(h, x) THEN
        IF k.t = "int" /\ k.v >= 0 /\ k.v < Len(h[x.v].items)
        THEN h[x.v].items[k.v + 1] ELSE d
    ELSE d

\* set_item(obj, key, value, allow_override): a dict takes the pair; a list is
\* overwritten in range, padded with None and appended to out of range.
set_item(m, x, k, value, allow_override) ==
    IF m.exc # "ok" THEN m
    ELSE IF is_dict_in(m.heap, x) THEN
        LET items == m.heap[x.v].items
            i == KeyIndex(items, k)
        IN IF i = 0
           THEN [m EXCEPT !.heap[x.v].items = Append(items, Pair(k, value))]
           ELSE IF allow_override
           THEN [m EXCEPT !.heap[x.v].items[i].val = value]
           ELSE m
    ELSE IF is_list_in(m.heap, x) THEN
        LET items == m.heap[x.v].items IN
        IF k.t # "int" THEN Raise(m, "TypeError")
        ELSE IF k.v < Len(items) THEN
            IF allow_override /\ k.v >= 0
            THEN [m EXCEPT !.heap[x.v].items[k.v + 1] = value]
            ELSE m
        ELSE [m EXCEPT !.heap[x.v].items =
                 items \o [j \in 1..(k.v - Len(items)) |-> None] \o <<value>>]
    ELSE m

----------------------------------------------------------------------------
(* merge.                                                                  *)

\* The callbacks a caller passes to merge and assign: none, or a two-argument
\* function returning its first or its second argument.
Callback2(cb, a, b) == IF cb = "first" THEN a ELSE b

\* Mutant of merge_value: a value already in dest is kept.
merge_value_keep(cb, obj_value, src_value) ==
    IF obj_value # None THEN obj_value ELSE src_value

\* Mutant of merge_value: the callback is not consulted.
merge_value_source(cb, obj_value, src_value) == src_value

\* The value merge stores when it does not recurse: the callback's result, or
\* the source value.
merge_value(cb, obj_value, src_value) ==
    IF cb # "none" THEN Callback2(cb, obj_value, src_value) ELSE src_value

RECURSIVE merge(_, _, _, _)
RECURSIVE merge_source(_, _, _, _, _)

\* The body of merge's inner loop from the i-th pair of source on.
merge_source(m, obj, source, i, cb) ==
    IF m.exc # "ok" \/ i > Len(iterator(m.heap, source)) THEN m
    ELSE
        LET p == iterator(m.heap, source)[i]
            obj_value == get_item(m.heap, obj, p.key, None)
            is_sequences == /\ Truthy(m.heap, p.val)
                            /\ is_list_in(m.heap, p.val)
                            /\ is_list_in(m.heap, obj_value)
            is_mappings == /\ Truthy(m.heap, p.val)
                           /\ is_dict_in(m.heap, p.val)
                           /\ is_dict_in(m.heap, obj_value)
            m1 == IF (is_sequences \/ is_mappings) /\ cb = "none"
                  THEN merge(m, obj_value, <<p.val>>, "none")
                  ELSE m
            result == IF (is_sequences \/ is_mappings) /\ cb = "none" THEN obj_value
                      ELSE merge_value(cb, obj_value, p.val)
        IN merge_source(set_item(m1, obj, p.key, result, TRUE), obj, source, i + 1, cb)

\* merge(obj, *sources, callback=cb): the heap after the call (obj is returned).
merge(m, obj, sources, cb) ==
    IF sources = <<>> THEN m
    ELSE merge(merge_source(m, obj, Head(sources), 1, cb), obj, Tail(sources), cb)

\* The dicts the caller merges: key "a" holds a scalar, a nested dict or a
\* nested list; key "b" holds a scalar.
MergeSrcA == {None, PyInt(1), PyInt(2),
              DictLit(<<Pair(Chr("x"), PyInt(1))>>),
              DictLit(<<Pair(Chr("y"), PyInt(2))>>),
              ListLit(<<PyInt(1)>>)}
MergeSrcB == {None, PyInt(1), PyInt(2)}
MergeDestA == {None, PyInt(2),
               DictLit(<<Pair(Chr("x"), PyInt(2)), Pair(Chr("z"), PyInt(2))>>),
               ListLit(<<PyInt(2), PyInt(2)>>)}
MergeDestB == {None, PyInt(2)}

\* The dict literal {a: va, b: vb}; the marker None leaves a key out.
AB(va, vb) ==
    DictLit((IF va = None THEN <<>> ELSE <<Pair(Chr("a"), va)>>)
            \o (IF vb = None THEN <<>> ELSE <<Pair(Chr("b"), vb)>>))

MergeSources == {AB(va, vb) : va \in MergeSrcA, vb \in MergeSrcB}
MergeDests == {AB(va, vb) : va \in MergeDestA, vb \in MergeDestB}

SeqsUpTo(S, n) == UNION {[1..k -> S] : k \in 0..n}

InitMerge ==
    \E d \in MergeDests, ss \in SeqsUpTo(MergeSources, MaxSources) :
        LET a == AllocSeq(<<>>, <<d>> \o ss) IN
        /\ heap = a.h
        /\ heap0 = a.h
        /\ call = [fn |-> "merge", obj |-> a.vals[1], sources |-> Tail(a.vals),
                   callback |-> "none"]
        /\ pc = "call"
        /\ ret = NoRet
        /\ trace = <<>>

Merge ==
    /\ pc = "call"
    /\ call.fn = "merge"
    /\ LET m == merge(Mach(heap), call.obj, call.sources, call.callback) IN
       /\ heap' = m.heap
       /\ ret' = [exc |-> m.exc, val |-> call.obj]
    /\ pc' = "done"
    /\ UNCHANGED <<call, trace, heap0>>

NextMerge == Merge

SpecMerge == InitMerge /\ [][NextMerge]_vars

\* The content of a container before the call and after it.
Before(x) == View(heap0, x)
After(x) == View(heap, x)
Returned(fn) == pc = "done" /\ call.fn = fn
IsScalar(x) == x.t \in {"none", "bool", "int", "str"}

\* C1: merge never mutates a source: after merge(dest, s1, ..., sn) every
\* container reachable from a source holds what it held before the call.
C1_MergeLeavesSources ==
    Returned("merge") =>
        \A i \in 1..Len(call.sources) :
            \A a \in Reach(heap0, call.sources[i]) : heap[a] = heap0[a]

\* C6: merge({}, a, b) without a callback: with disjoint keys the result is the
\* union of a and b; on a key both hold a scalar under, b's value wins; the
\* dest it was given is returned.
C6_MergeUnion ==
    (/\ Returned("merge")
     /\ call.callback = "none"
     /\ Len(call.sources) = 2
     /\ heap0[call.obj.v].items = <<>>) =>
        LET a == Before(call.sources[1]).v
            b == Before(call.sources[2]).v
            r == After(call.obj).v
        IN /\ ret = [exc |-> "ok", val |-> call.obj]
           /\ (DOMAIN a \cap DOMAIN b = {} => r = a @@ b)
           /\ \A k \in DOMAIN a \cap DOMAIN b :
                  IsScalar(a[k]) /\ IsScalar(b[k]) => k \in DOMAIN r /\ r[k] = b[k]

\* C6 witness: merge({}, a, b) has returned for a and b that share a key with
\* different scalars and each hold a key the other lacks.
C6_Witness ==
    /\ Returned("merge")
    /\ Len(call.sources) = 2
    /\ heap0[call.obj.v].items = <<>>
    /\ LET a == Before(call.sources[1]).v
           b == Before(call.sources[2]).v
       IN /\ \E k \in DOMAIN a \cap DOMAIN b :
                IsScalar(a[k]) /\ IsScalar(b[k]) /\ a[k] # b[k]
          /\ DOMAIN a # DOMAIN b

\* C6 witness of the disjoint case is part of the same run: a = {a: ..}, b = {b: ..}.

----------------------------------------------------------------------------
(* merge key by key: calls with and without a callback, on dest and source *)
(* values that are absent, scalars, empty containers and nested ones.      *)

KeyDestA == {None, PyInt(2), DictLit(<<>>), ListLit(<<>>),
             DictLit(<<Pair(Chr("x"), PyInt(2)), Pair(Chr("z"), PyInt(2))>>),
             ListLit(<<PyInt(2), PyInt(2)>>),
             DictLit(<<Pair(Chr("x"), DictLit(<<Pair(Chr("y"), PyInt(2))>>))>>)}
KeySrcA == {PyInt(1), DictLit(<<>>), ListLit(<<>>),
            DictLit(<<Pair(Chr("x"), PyInt(1))>>),
            ListLit(<<PyInt(1)>>),
            ListLit(<<PyInt(1), PyInt(1), PyInt(1)>>),
            DictLit(<<Pair(Chr("x"), DictLit(<<Pair(Chr("w"), PyInt(1))>>))>>)}
KeyDests == {AB(va, None) : va \in KeyDestA}
KeySources == {AB(va, None) : va \in KeySrcA} \cup {AB(None, PyInt(1)), AB(PyInt(1), PyInt(1))}

InitMergeKey ==
    \E d \in KeyDests, ss \in SeqsUpTo(KeySources, MaxSources),
       cb \in {"none", "first", "second"} :
        LET a == AllocSeq(<<>>, <<d>> \o ss) IN
        /\ heap = a.h
        /\ heap0 = a.h
        /\ call = [fn |-> "merge", obj |-> a.vals[1], sources |-> Tail(a.vals),
                   callback |-> cb]
        /\ pc = "call"
        /\ ret = NoRet
        /\ trace = <<>>

SpecMergeKey == InitMergeKey /\ [][NextMerge]_vars

\* The per-key rule on contents.  A content is a non-empty container.
NonEmpty(V) == V.t \in {"dict", "list"} /\ V.v # <<>>
KeysOf(V) == IF V.t = "dict" THEN DOMAIN V.v ELSE {PyInt(i - 1) : i \in 1..Len(V.v)}
ValueAt(V, k) ==
    IF k \notin KeysOf(V) THEN None
    ELSE IF V.t = "dict" THEN V.v[k] ELSE V.v[k.v + 1]

RECURSIVE PerKey(_, _, _)
\* The content of container D after source S is merged into it: at each key of
\* S, the callback's result if there is a callback; else the recursive merge
\* if both values are non-empty containers of one family; else S's value.
PerKey(cb, D, S) ==
    LET at(k) ==
            IF k \notin KeysOf(S) THEN ValueAt(D, k)
            ELSE IF cb # "none" THEN Callback2(cb, ValueAt(D, k), ValueAt(S, k))
            ELSE IF /\ NonEmpty(ValueAt(D, k))
                    /\ NonEmpty(ValueAt(S, k))
                    /\ ValueAt(D, k).t = ValueAt(S, k).t
            THEN PerKey("none", ValueAt(D, k), ValueAt(S, k))
            ELSE ValueAt(S, k)
    IN IF D.t = "dict"
       THEN [t |-> "dict", v |-> [k \in KeysOf(D) \cup KeysOf(S) |-> at(k)]]
       ELSE [t |-> "list",
             v |-> [i \in 1..Cardinality(KeysOf(D) \cup KeysOf(S)) |-> at(PyInt(i - 1))]]

RECURSIVE PerKeyAll(_, _, _)
PerKeyAll(cb, D, Ss) ==
    IF Ss = <<>> THEN D ELSE PerKeyAll(cb, PerKey(cb, D, Head(Ss)), Tail(Ss))

----------------------------------------------------------------------------
(* clone, clone_deep, update_path, set_path.                               *)

\* The elements a container holds, and the container with them replaced.
Elems(o) ==
    IF o.kind = "list" THEN o.items ELSE [i \in 1..Len(o.items) |-> o.items[i].val]
WithElems(o, vals) ==
    IF o.kind = "list" THEN ListObj(vals)
    ELSE DictObj([i \in 1..Len(o.items) |-> Pair(o.items[i].key, vals[i])])

\* A new object on the heap: [m, val], val its reference.
NewObj(m, o) ==
    [m |-> [m EXCEPT !.heap = Append(m.heap, o)], val |-> Ref(Len(m.heap) + 1)]

RECURSIVE deepcopy(_, _)
RECURSIVE deepcopy_seq(_, _)
deepcopy_step(acc, c) == [m |-> c.m, vals |-> Append(acc.vals, c.val)]
deepcopy_build(o, r) == NewObj(r.m, WithElems(o, r.vals))

\* copy.deepcopy(x): a fresh copy of every container reachable from x (the
\* arguments built here share no container, so no memo is needed).
deepcopy(m, x) ==
    IF ~is_ref(x) THEN [m |-> m, val |-> x]
    ELSE deepcopy_build(m.heap[x.v],
                        deepcopy_seq([m |-> m, vals |-> <<>>], Elems(m.heap[x.v])))

deepcopy_seq(acc, xs) ==
    IF xs = <<>> THEN acc
    ELSE deepcopy_seq(deepcopy_step(acc, deepcopy(acc.m, Head(xs))), Tail(xs))

\* copy.copy(x): a fresh top-level container holding the same elements.
shallowcopy(m, x) ==
    IF ~is_ref(x) THEN [m |-> m, val |-> x] ELSE NewObj(m, m.heap[x.v])

\* clone's second half: the top level rebuilt from the copy's pairs, a list
\* from a list and a dict from anything else.
clone_build(c) ==
    NewObj(c.m, IF is_list_in(c.m.heap, c.val)
                THEN ListObj(c.m.heap[c.val.v].items)
                ELSE DictObj(iterator(c.m.heap, c.val)))

\* clone(value, is_deep, callback=None).
clone(m, value, is_deep) ==
    clone_build(IF is_deep THEN deepcopy(m, value) ELSE shallowcopy(m, value))

\* Mutant of clone_deep: the value itself is handed back, uncopied.
clone_deep_shared(m, value) == [m |-> m, val |-> value]

\* Mutant of clone_deep: is_deep is not passed on, the copy is one level deep.
clone_deep_shallow(m, value) == clone(m, value, FALSE)

\* clone_deep(value) == clone(value, is_deep=True).
clone_deep(m, value) == clone(m, value, TRUE)

\* The one-argument callbacks a caller passes to update_path: set_path's
\* lambda returning a fixed value, or a function returning its argument.
Callback1(cb, x) == IF cb.kind = "const" THEN cb.value ELSE x

\* arrays.last and arrays.initial.
last(array) == array[Len(array)]
initial(array) == SubSeq(array, 1, Len(array) - 1)

RaiseMark == [t |-> "raise", v |-> 0]
\* target[key]: the element, or the mark of KeyError, IndexError or TypeError.
Subscript(h, x, k) == get_item(h, x, k, RaiseMark)

RECURSIVE update_walk(_, _, _, _)
\* target = target[key], then the rest of the loop.
walk_down(m, target, keys, default) ==
    IF m.exc # "ok" THEN [m |-> m, val |-> target]
    ELSE IF Subscript(m.heap, target, Head(keys)) = RaiseMark
    THEN [m |-> Raise(m, IF is_ref(target) THEN "KeyError" ELSE "TypeError"),
          val |-> target]
    ELSE update_walk(m, Subscript(m.heap, target, Head(keys)), Tail(keys), default)

\* set_item(target, key, clone_deep(default), allow_override=False), c the clone.
walk_set(c, target, keys, default) ==
    walk_down(set_item(c.m, target, Head(keys), c.val, FALSE), target, keys, default)

\* update_path's loop over initial(keys): [m, val], val the target reached.
update_walk(m, target, keys, default) ==
    IF m.exc # "ok" \/ keys = <<>> THEN [m |-> m, val |-> target]
    ELSE walk_set(clone_deep(m, default), target, keys, default)

\* Mutant of default_for: the default is {} whatever obj is.
default_for_dict(m, obj, default) ==
    IF default = None THEN NewObj(m, DictObj(<<>>)) ELSE [m |-> m, val |-> default]

\* default = {} if isinstance(obj, dict) else [], when default is None.
default_for(m, obj, default) ==
    IF default = None
    THEN NewObj(m, IF is_dict_in(m.heap, obj) THEN DictObj(<<>>) ELSE ListObj(<<>>))
    ELSE [m |-> m, val |-> default]

\* set_item(target, last_key, callback(get_item(target, last_key, default=None))).
update_last(w, root, callback, last_key) ==
    [m |-> set_item(w.m, w.val, last_key,
                    Callback1(callback, get_item(w.m.heap, w.val, last_key, None)),
                    TRUE),
     val |-> root]

\* The loop and the final set_item on the clone c of obj.
update_in(c, callback, path, default) ==
    update_last(update_walk(c.m, c.val, initial(path), default),
                c.val, callback, last(path))

update_from(d, obj, callback, path) ==
    update_in(clone_deep(d.m, obj), callback, path, d.val)

\* update_path(obj, callback, keys, default): [m, val], val the updated copy.
\* keys is [list, v]: a list of keys, or one key that is not a list.
update_path(m, obj, callback, keys, default) ==
    update_from(default_for(m, obj, default), obj, callback,
                IF keys.list THEN keys.v ELSE <<keys.v>>)

\* set_path(obj, value, keys, default): update_path with lambda *_: value.
set_path(m, obj, value, keys, default) ==
    update_path(m, obj, [kind |-> "const", value |-> value], keys, default)

MaxPath == 3

PathKeys == {Chr("a"), Chr("b"), Chr("c"), PyInt(0)}
PathObjs == {DictLit(<<>>),
             DictLit(<<Pair(Chr("a"), PyInt(1))>>),
             DictLit(<<Pair(Chr("a"), DictLit(<<Pair(Chr("b"), PyInt(1))>>))>>),
             DictLit(<<Pair(Chr("a"), DictLit(<<>>)), Pair(Chr("b"), ListLit(<<>>))>>),
             DictLit(<<Pair(Chr("a"), ListLit(<<DictLit(<<>>)>>))>>),
             ListLit(<<>>),
             ListLit(<<DictLit(<<Pair(Chr("a"), PyInt(1))>>)>>)}
PathDefaults == {None, DictLit(<<>>), DictLit(<<Pair(Chr("c"), PyInt(2))>>),
                 DictLit(<<Pair(Chr("c"), DictLit(<<>>))>>)}
PathArgs == [list : {TRUE}, v : UNION {[1..k -> PathKeys] : k \in 1..MaxPath}]
                \cup [list : {FALSE}, v : PathKeys]

InitPath ==
    \E o \in PathObjs, d \in PathDefaults, ks \in PathArgs,
       f \in {"update_path", "set_path"} :
        LET a == AllocSeq(<<>>, <<o, d>>) IN
        /\ heap = a.h
        /\ heap0 = a.h
        /\ call = [fn |-> f, obj |-> a.vals[1], default |-> a.vals[2], keys |-> ks,
                   value |-> Chr("x"), callback |-> [kind |-> "identity"]]
        /\ pc = "call"
        /\ ret = NoRet
        /\ trace = <<>>

UpdatePath ==
    /\ pc = "call"
    /\ call.fn = "update_path"
    /\ LET r == update_path(Mach(heap), call.obj, call.callback, call.keys, call.default) IN
       /\ heap' = r.m.heap
       /\ ret' = [exc |-> r.m.exc, val |-> IF r.m.exc = "ok" THEN r.val ELSE None]
    /\ pc' = "done"
    /\ UNCHANGED <<call, trace, heap0>>

SetPath ==
    /\ pc = "call"
    /\ call.fn = "set_path"
    /\ LET r == set_path(Mach(heap), call.obj, call.value, call.keys, call.default) IN
       /\ heap' = r.m.heap
       /\ ret' = [exc |-> r.m.exc, val |-> IF r.m.exc = "ok" THEN r.val ELSE None]
    /\ pc' = "done"
    /\ UNCHANGED <<call, trace, heap0>>

NextPath == UpdatePath \/ SetPath

SpecPath == InitPath /\ [][NextPath]_vars

\* The keys argument is the list path.
IsPath(keys, path) == keys.list /\ keys.v = path

\* C2: update_path and set_path never mutate obj: every container that existed
\* before the call holds what it held, the returned object shares no container
\* with obj, and set_path({}, 'x', ['a','b','c']) is {'a': {'b': {'c': 'x'}}}.
C2_PathLeavesObj ==
    (pc = "done" /\ call.fn \in {"update_path", "set_path"}) =>
        /\ \A a \in Reach(heap0, call.obj) : heap[a] = heap0[a]
        /\ Before(call.obj) = View(heap, call.obj)
        /\ ret.exc = "ok" =>
              /\ is_ref(ret.val)
              /\ Reach(heap, ret.val) \cap Reach(heap0, call.obj) = {}
        /\ (/\ call.fn = "set_path"
            /\ Before(call.obj) = [t |-> "dict", v |-> <<>>]
            /\ call.default = None
            /\ IsPath(call.keys, <<Chr("a"), Chr("b"), Chr("c")>>)) =>
              /\ ret.exc = "ok"
              /\ After(ret.val) =
                    [t |-> "dict", v |-> (Chr("a") :> [t |-> "dict", v |->
                        (Chr("b") :> [t |-> "dict", v |-> (Chr("c") :> Chr("x"))])])]

\* C2 witness: set_path({}, 'x', ['a','b','c']) has returned a new nested dict
\* and the dict passed in is still empty.
C2_Witness ==
    /\ Returned("set_path")
    /\ IsPath(call.keys, <<Chr("a"), Chr("b"), Chr("c")>>)
    /\ heap0[call.obj.v] = DictObj(<<>>)
    /\ heap[call.obj.v] = DictObj(<<>>)
    /\ ret.exc = "ok"
    /\ Chr("a") \in DOMAIN After(ret.val).v

\* What update_path is to produce, on contents rather than on the heap.
\* A content holds key k; the value it holds there.
VHas(V, k) ==
    IF V.t = "dict" THEN k \in DOMAIN V.v
    ELSE V.t = "list" /\ k.t = "int" /\ k.v >= 0 /\ k.v < Len(V.v)
VGet(V, k) == IF V.t = "dict" THEN V.v[k] ELSE V.v[k.v + 1]

Undefined == [t |-> "undefined", v |-> 0]
EmptyDict == [t |-> "dict", v |-> <<>>]
EmptyList == [t |-> "list", v |-> <<>>]

\* The content V with x at key k; a list takes an index up to its length.
VPut(V, k, x) ==
    IF x = Undefined THEN Undefined
    ELSE IF V.t = "dict"
    THEN [t |-> "dict", v |-> [kk \in DOMAIN V.v \cup {k} |-> IF kk = k THEN x ELSE V.v[kk]]]
    ELSE IF V.t = "list" /\ k.t = "int" /\ k.v >= 0 /\ k.v <= Len(V.v)
    THEN [t |-> "list", v |-> [i \in 1..(IF k.v < Len(V.v) THEN Len(V.v) ELSE k.v + 1) |->
                                  IF i = k.v + 1 THEN x ELSE V.v[i]]]
    ELSE Undefined

\* The container made at an absent key when no default was given: by the kind
\* of the object update_path was given, or by the kind of the current target.
MadeByRoot(root, target) == IF root.t = "dict" THEN EmptyDict ELSE EmptyList
MadeByTarget(root, target) == IF target.t = "dict" THEN EmptyDict ELSE EmptyList

RECURSIVE Vivified(_, _, _, _, _, _)
\* The content after the walk of path ks from target V: a value present at a
\* key is kept and descended into, an absent one is made from the default D
\* (None: by rule), and the last key takes callback(current value or None).
Vivified(rule, root, V, ks, cb, D) ==
    IF Len(ks) = 1
    THEN VPut(V, ks[1], Callback1(cb, IF VHas(V, ks[1]) THEN VGet(V, ks[1]) ELSE None))
    ELSE VPut(V, ks[1],
              Vivified(rule, root,
                       IF VHas(V, ks[1]) THEN VGet(V, ks[1])
                       ELSE IF D # None THEN D
                       ELSE IF rule = "root" THEN MadeByRoot(root, V)
                       ELSE MadeByTarget(root, V),
                       Tail(ks), cb, D))

PathOf(keys) == IF keys.list THEN keys.v ELSE <<keys.v>>
CallbackOf(c) == IF c.fn = "set_path" THEN [kind |-> "const", value |-> c.value]
                 ELSE c.callback

RECURSIVE Targets(_, _, _)
\* The containers the walk of path ks passes through in heap h, from x on.
Targets(h, x, ks) ==
    IF ~is_ref(x) THEN <<>>
    ELSE <<x.v>> \o (IF ks = <<>> THEN <<>>
                     ELSE Targets(h, get_item(h, x, Head(ks), None), Tail(ks)))

\* The call returned what the rule gives, every container on the path is a
\* container of its own, and the default the caller passed is neither
\* written to nor part of the result.
Vivifies(rule) ==
    (pc = "done" /\ call.fn \in {"update_path", "set_path"}) =>
        LET expected == Vivified(rule, Before(call.obj), Before(call.obj),
                                 PathOf(call.keys), CallbackOf(call), Before(call.default))
            on_path == Targets(heap, ret.val, initial(PathOf(call.keys)))
        IN expected # Undefined =>
              /\ ret.exc = "ok"
              /\ After(ret.val) = expected
              /\ \A i, j \in 1..Len(on_path) : i # j => on_path[i] # on_path[j]
              /\ \A a \in Reach(heap0, call.default) : heap[a] = heap0[a]
              /\ Reach(heap, ret.val) \cap Reach(heap0, call.default) = {}

\* C13 as claimed: a container made at an absent key, no default given, is an
\* empty mapping when the current target is a mapping and an empty sequence
\* otherwise.
C13_Vivify_Claimed == Vivifies("target")

\* C13: update_path walks every key of the path but the last: a value present
\* at the key is kept and descended into; at an absent key, with no default, the
\* container made is an empty dict when obj (the object passed in) is a dict
\* and an empty list otherwise; with a default, it is a deep copy of the
\* default, a copy of its own at each level; at the last key the value becomes
\* callback(current value or None).
C13_Vivify == Vivifies("root")

\* C13 witness: update_path or set_path on {'a': {}, 'b': []} with path
\* ['b', 0, 'a'] and no default has returned: the container made inside the
\* list under 'b' is a dict, as obj is.
C13_Witness ==
    /\ pc = "done"
    /\ call.fn \in {"update_path", "set_path"}
    /\ IsPath(call.keys, <<Chr("b"), PyInt(0), Chr("a")>>)
    /\ call.default = None
    /\ ret.exc = "ok"
    /\ Before(call.obj).t = "dict"
    /\ Chr("b") \in DOMAIN Before(call.obj).v
    /\ Before(call.obj).v[Chr("b")] = EmptyList
    /\ After(ret.val).v[Chr("b")].v[1].t = "dict"

----------------------------------------------------------------------------
(* itercallback, find_key, find_last_key, for_in, for_in_right, transform. *)
(* A callback is a function of (value, key, obj): it is given here by the  *)
(* result it returns at each pair of obj, pairs counted in forward order.  *)

Ok(x) == [exc |-> "ok", val |-> x]

\* itercallback(obj, callback, reverse): the tuples (result, value, key) it
\* yields, in the order it yields them.  It is a generator: the callback runs
\* for the j-th tuple only when the consumer asks for the j-th tuple.
itercallback(h, obj, cb, reverse) ==
    [j \in 1..Len(iterator(h, obj)) |->
        [result |-> cb[IF reverse THEN Len(iterator(h, obj)) + 1 - j ELSE j],
         val |-> iterator(h, obj)[IF reverse THEN Len(iterator(h, obj)) + 1 - j ELSE j].val,
         key |-> iterator(h, obj)[IF reverse THEN Len(iterator(h, obj)) + 1 - j ELSE j].key]]

\* What one turn of a loop leaves: the invocations so far, where control is,
\* and the value returned if the function is done.
Turn(tr, where, r) == [trace |-> tr, pc |-> where, ret |-> r]

\* The j-th invocation as recorded: its key and the callback's result.
Invoked(e) == [key |-> e.key, result |-> e.result]

\* find_key's loop body on the tuple e: if result: return key.
find_key_body(h, tr, e) ==
    IF Truthy(h, e.result)
    THEN Turn(Append(tr, Invoked(e)), "done", Ok(e.key))
    ELSE Turn(Append(tr, Invoked(e)), "iter", NoRet)

\* find_key(obj, callback): one turn of its loop over itercallback(obj, callback),
\* after the invocations tr; falling off the loop returns None.
find_key(h, obj, cb, tr) ==
    IF Len(tr) >= Len(itercallback(h, obj, cb, FALSE))
    THEN Turn(tr, "done", Ok(None))
    ELSE find_key_body(h, tr, itercallback(h, obj, cb, FALSE)[Len(tr) + 1])

\* find_last_key = find_key.
find_last_key(h, obj, cb, tr) == find_key(h, obj, cb, tr)

\* Mutant of is_False: any falsy result counts.
is_False_falsy(h, result) == ~Truthy(h, result)

\* result is False.
is_False(h, result) == result = PyFalse

\* The loop body of for_in and for_in_right: if result is False: break.
for_in_body(h, obj, tr, e) ==
    IF is_False(h, e.result)
    THEN Turn(Append(tr, Invoked(e)), "done", Ok(obj))
    ELSE Turn(Append(tr, Invoked(e)), "iter", NoRet)

\* for_in(obj, callback): one turn of its loop; after the loop, return obj.
for_in(h, obj, cb, tr) ==
    IF Len(tr) >= Len(itercallback(h, obj, cb, FALSE))
    THEN Turn(tr, "done", Ok(obj))
    ELSE for_in_body(h, obj, tr, itercallback(h, obj, cb, FALSE)[Len(tr) + 1])

\* for_in_right(obj, callback): the same loop over itercallback(obj, callback, reverse=True).
for_in_right(h, obj, cb, tr) ==
    IF Len(tr) >= Len(itercallback(h, obj, cb, TRUE))
    THEN Turn(tr, "done", Ok(obj))
    ELSE for_in_body(h, obj, tr, itercallback(h, obj, cb, TRUE)[Len(tr) + 1])

\* transform's callback(accumulator, value, key, obj): it appends value to the
\* accumulator list, the mutation transform's contract expects of it.
transform_callback(h, acc, value) ==
    [h EXCEPT ![acc.v].items = Append(h[acc.v].items, value)]

\* transform(obj, callback, accumulator): one turn of its loop over
\* iterator(obj); result is False breaks; after the loop, return accumulator.
transform(h, obj, cb, acc, tr) ==
    IF Len(tr) >= Len(iterator(h, obj))
    THEN Turn(tr, "done", Ok(acc))
    ELSE IF is_False(h, cb[Len(tr) + 1])
    THEN Turn(Append(tr, [key |-> iterator(h, obj)[Len(tr) + 1].key,
                          result |-> cb[Len(tr) + 1]]), "done", Ok(acc))
    ELSE Turn(Append(tr, [key |-> iterator(h, obj)[Len(tr) + 1].key,
                          result |-> cb[Len(tr) + 1]]), "iter", NoRet)

IterKeys == {Chr("a"), Chr("b"), Chr("c")}

\* The containers iterated: dicts of up to MaxLen pairs in every insertion
\* order, and lists of up to MaxLen elements.
IterObjs ==
    {DictLit([i \in 1..Len(ks) |-> Pair(ks[i], PyInt(i))]) :
        ks \in {q \in SeqsUpTo(IterKeys, MaxLen) :
                   \A i, j \in 1..Len(q) : i # j => q[i] # q[j]}}
    \cup {ListLit([i \in 1..n |-> PyInt(i)]) : n \in 0..MaxLen}

IterFns == {"find_key", "find_last_key", "for_in", "for_in_right", "transform"}

\* What a callback returns: False, True, None, 0, or an empty list.
CbResults(empty) == {PyFalse, PyTrue, None, PyInt(0), empty}

InitIter ==
    \E o \in IterObjs, f \in IterFns :
        LET a == AllocSeq(<<>>, <<o, ListLit(<<>>)>>) IN
        \E cb \in [1..Len(o.v) -> CbResults(a.vals[2])] :
            /\ heap = a.h
            /\ heap0 = a.h
            /\ call = [fn |-> f, obj |-> a.vals[1], callback |-> cb, accumulator |-> None]
            /\ pc = IF f = "transform" THEN "call" ELSE "iter"
            /\ ret = NoRet
            /\ trace = <<>>

\* One turn of a loop that does not touch the heap.
TakeTurn(t) ==
    /\ trace' = t.trace
    /\ pc' = t.pc
    /\ ret' = t.ret
    /\ UNCHANGED <<heap, call, heap0>>

FindKey ==
    /\ pc = "iter" /\ call.fn = "find_key"
    /\ TakeTurn(find_key(heap, call.obj, call.callback, trace))

FindLastKey ==
    /\ pc = "iter" /\ call.fn = "find_last_key"
    /\ TakeTurn(find_last_key(heap, call.obj, call.callback, trace))

ForIn ==
    /\ pc = "iter" /\ call.fn = "for_in"
    /\ TakeTurn(for_in(heap, call.obj, call.callback, trace))

ForInRight ==
    /\ pc = "iter" /\ call.fn = "for_in_right"
    /\ TakeTurn(for_in_right(heap, call.obj, call.callback, trace))

\* transform's entry: if accumulator is None: accumulator = [].
TransformEnter ==
    /\ pc = "call" /\ call.fn = "transform"
    /\ heap' = Append(heap, ListObj(<<>>))
    /\ call' = [call EXCEPT !.accumulator = Ref(Len(heap) + 1)]
    /\ pc' = "iter"
    /\ UNCHANGED <<ret, trace, heap0>>

Transform ==
    /\ pc = "iter" /\ call.fn = "transform"
    /\ heap' = IF Len(trace) >= Len(iterator(heap, call.obj)) THEN heap
               ELSE transform_callback(heap, call.accumulator,
                                       iterator(heap, call.obj)[Len(trace) + 1].val)
    /\ trace' = transform(heap, call.obj, call.callback, call.accumulator, trace).trace
    /\ pc' = transform(heap, call.obj, call.callback, call.accumulator, trace).pc
    /\ ret' = transform(heap, call.obj, call.callback, call.accumulator, trace).ret
    /\ UNCHANGED <<call, heap0>>

NextIter == FindKey \/ FindLastKey \/ ForIn \/ ForInRight \/ TransformEnter \/ Transform

SpecIter == InitIter /\ [][NextIter]_vars

\* The keys of obj in forward order, and the callback's result at each.
FwdKeys == [i \in 1..Len(iterator(heap0, call.obj)) |-> iterator(heap0, call.obj)[i].key]
Matches == {i \in 1..Len(FwdKeys) : Truthy(heap0, call.callback[i])}
Min(S) == CHOOSE x \in S : \A y \in S : x <= y
Max(S) == CHOOSE x \in S : \A y \in S : x >= y

\* C3: find_key returns the first key in forward order whose callback result is
\* truthy, find_last_key the first such key in reverse order (the last one in
\* forward order); both return None when no pair matches.
C3_FindKeys ==
    /\ Returned("find_key") =>
          ret = Ok(IF Matches = {} THEN None ELSE FwdKeys[Min(Matches)])
    /\ Returned("find_last_key") =>
          ret = Ok(IF Matches = {} THEN None ELSE FwdKeys[Max(Matches)])

\* The order in which the function in progress visits the pairs of obj.
Visit(j) ==
    IF call.fn = "for_in_right" THEN FwdKeys[Len(FwdKeys) + 1 - j] ELSE FwdKeys[j]

\* C5: for_in, for_in_right and transform invoke the callback on the pairs in
\* order, once each; no pair is processed after one whose result is exactly
\* False; a falsy result other than False does not stop the loop; for_in and
\* for_in_right return obj and transform returns the accumulator.
C5_EarlyExit ==
    call.fn \in {"for_in", "for_in_right", "transform"} =>
        /\ Len(trace) <= Len(FwdKeys)
        /\ \A j \in 1..Len(trace) : trace[j].key = Visit(j)
        /\ \A j \in 1..(Len(trace) - 1) : trace[j].result # PyFalse
        /\ pc = "done" =>
              /\ \/ Len(trace) = Len(FwdKeys)
                 \/ trace[Len(trace)].result = PyFalse
              /\ ret = Ok(IF call.fn = "transform" THEN call.accumulator ELSE call.obj)
              /\ call.fn = "transform" =>
                    Len(heap[call.accumulator.v].items) = Len(trace)
        /\ (pc = "iter" /\ trace # <<>>) => trace[Len(trace)].result # PyFalse

\* C5 witness: a loop over three pairs has ended at the second pair, whose
\* result was False, after a first pair whose result was falsy but not False.
C5_Witness ==
    /\ call.fn \in {"for_in", "for_in_right", "transform"}
    /\ pc = "done"
    /\ Len(FwdKeys) = 3
    /\ Len(trace) = 2
    /\ trace[1].result \in {None, PyInt(0)}
    /\ trace[2].result = PyFalse

----------------------------------------------------------------------------
(* assign and defaults.                                                    *)

\* A function object passed as an argument; v names what it computes.
PyFunc(f) == [t |-> "func", v |-> f]
callable(x) == x.t = "func"

\* obj[key] = value on a dict.
setitem(m, obj, k, value) == set_item(m, obj, k, value, TRUE)

\* assign's loops from the i-th pair of the first source on:
\* obj[key] = value if callback is None else callback(obj.get(key), value).
RECURSIVE assign_loop(_, _, _, _, _)
assign_loop(m, obj, sources, i, cb) ==
    IF sources = <<>> THEN m
    ELSE IF i > Len(iterator(m.heap, Head(sources)))
    THEN assign_loop(m, obj, Tail(sources), 1, cb)
    ELSE assign_loop(
            setitem(m, obj, iterator(m.heap, Head(sources))[i].key,
                    IF cb = "none" THEN iterator(m.heap, Head(sources))[i].val
                    ELSE Callback2(cb, get_item(m.heap, obj,
                                                iterator(m.heap, Head(sources))[i].key,
                                                None),
                                   iterator(m.heap, Head(sources))[i].val)),
            obj, sources, i + 1, cb)

\* assign(obj, *sources, callback=cb): [m, val].  sources[-1] is read before
\* anything else when no callback keyword is given.
assign(m, obj, sources, cb) ==
    IF cb = "none" /\ sources = <<>>
    THEN [m |-> Raise(m, "IndexError"), val |-> None]
    ELSE IF cb = "none" /\ callable(sources[Len(sources)])
    THEN [m |-> assign_loop(m, obj, initial(sources), 1, sources[Len(sources)].v),
          val |-> obj]
    ELSE [m |-> assign_loop(m, obj, sources, 1, cb), val |-> obj]

\* Mutant of setdefault: the key is set whether present or not.
setdefault_override(m, obj, k, value) == set_item(m, obj, k, value, TRUE)

\* obj.setdefault(key, value): set only if key is not in obj.
setdefault(m, obj, k, value) ==
    IF KeyIndex(m.heap[obj.v].items, k) # 0 THEN m
    ELSE [m EXCEPT !.heap[obj.v].items = Append(m.heap[obj.v].items, Pair(k, value))]

RECURSIVE defaults_loop(_, _, _, _)
defaults_loop(m, obj, sources, i) ==
    IF sources = <<>> THEN m
    ELSE IF i > Len(iterator(m.heap, Head(sources)))
    THEN defaults_loop(m, obj, Tail(sources), 1)
    ELSE defaults_loop(setdefault(m, obj, iterator(m.heap, Head(sources))[i].key,
                                  iterator(m.heap, Head(sources))[i].val),
                       obj, sources, i + 1)

\* defaults(obj, *sources): [m, val].
defaults(m, obj, sources) == [m |-> defaults_loop(m, obj, sources, 1), val |-> obj]

AssignA == {None, PyInt(1), PyInt(2), DictLit(<<Pair(Chr("x"), PyInt(1))>>)}
AssignB == {None, PyInt(1), PyInt(2)}
\* The dicts passed to assign and defaults, {a: .., b: ..} and {b: .., a: ..}.
AssignDicts == {AB(va, vb) : va \in AssignA, vb \in AssignB}
                  \cup {DictLit(<<Pair(Chr("b"), PyInt(1)), Pair(Chr("a"), PyInt(2))>>)}
\* The call shapes: assign(obj, *sources), assign(obj, *sources, callback=f),
\* assign(obj, *sources, f) and defaults(obj, *sources).
AssignCalls == {[fn |-> "assign", callback |-> "none", tail |-> "none"],
                [fn |-> "assign", callback |-> "first", tail |-> "none"],
                [fn |-> "assign", callback |-> "none", tail |-> "second"],
                [fn |-> "defaults", callback |-> "none", tail |-> "none"]}

InitAssign ==
    \E d \in AssignDicts, ss \in SeqsUpTo(AssignDicts, MaxSources), c \in AssignCalls :
        LET a == AllocSeq(<<>>, <<d>> \o ss) IN
        /\ heap = a.h
        /\ heap0 = a.h
        /\ call = [fn |-> c.fn, obj |-> a.vals[1], callback |-> c.callback,
                   sources |-> Tail(a.vals) \o
                       (IF c.tail = "none" THEN <<>> ELSE <<PyFunc(c.tail)>>)]
        /\ pc = "call"
        /\ ret = NoRet
        /\ trace = <<>>

\* A call that runs to its return or to an exception in one step.
Return(r) ==
    /\ heap' = r.m.heap
    /\ ret' = [exc |-> r.m.exc, val |-> IF r.m.exc = "ok" THEN r.val ELSE None]
    /\ pc' = "done"
    /\ UNCHANGED <<call, trace, heap0>>

Assign ==
    /\ pc = "call" /\ call.fn = "assign"
    /\ Return(assign(Mach(heap), call.obj, call.sources, call.callback))

Defaults ==
    /\ pc = "call" /\ call.fn = "defaults"
    /\ Return(defaults(Mach(heap), call.obj, call.sources))

NextAssign == Assign \/ Defaults

SpecAssign == InitAssign /\ [][NextAssign]_vars

\* The content of the dict x before the call, as a function of its keys.
Dom(x) == DOMAIN Before(x).v
\* The sources of the call holding key k, by position.
Holding(k) == {i \in 1..Len(call.sources) : k \in Dom(call.sources[i])}
AllDicts(xs) == \A i \in 1..Len(xs) : is_ref(xs[i])

\* C7: defaults only fills keys absent from dest: a key dest had keeps its
\* value, a key dest lacked gets the value of the earliest source holding it,
\* no other key appears, and dest itself is returned.
C7_DefaultsFill ==
    Returned("defaults") =>
        /\ ret = Ok(call.obj)
        /\ DOMAIN After(call.obj).v =
              Dom(call.obj) \cup UNION {Dom(call.sources[i]) : i \in 1..Len(call.sources)}
        /\ \A k \in DOMAIN After(call.obj).v :
              After(call.obj).v[k] =
                  IF k \in Dom(call.obj) THEN Before(call.obj).v[k]
                  ELSE Before(call.sources[Min(Holding(k))]).v[k]

\* C7 witness: defaults has returned where dest held a key that a source holds
\* with another value, and lacked a key that two sources hold with different values.
C7_Witness ==
    /\ Returned("defaults")
    /\ Len(call.sources) = 2
    /\ \E k \in Dom(call.obj) :
          k \in Dom(call.sources[1]) /\ Before(call.sources[1]).v[k] # Before(call.obj).v[k]
    /\ \E k \in Dom(call.sources[1]) \cap Dom(call.sources[2]) :
          /\ k \notin Dom(call.obj)
          /\ Before(call.sources[1]).v[k] # Before(call.sources[2]).v[k]

\* C8: assign(dest, *sources) without a callback, for any number of dict
\* sources including none, returns dest, whose content is the original dest
\* overlaid by each source in order.
C8_AssignOverlay ==
    (Returned("assign") /\ call.callback = "none" /\ AllDicts(call.sources)) =>
        /\ ret = Ok(call.obj)
        /\ DOMAIN After(call.obj).v =
              Dom(call.obj) \cup UNION {Dom(call.sources[i]) : i \in 1..Len(call.sources)}
        /\ \A k \in DOMAIN After(call.obj).v :
              After(call.obj).v[k] =
                  IF Holding(k) = {} THEN Before(call.obj).v[k]
                  ELSE Before(call.sources[Max(Holding(k))]).v[k]

----------------------------------------------------------------------------
(* pick and omit.  Property names are given as literals: a name, a list of *)
(* names, or lists nested in lists.                                        *)

RECURSIVE flatten_deep(_)
RECURSIVE flatten_seq(_)
\* arrays.flatten_deep: the non-list elements of a nested list, in order.
flatten_deep(lit) == IF lit.t = "listlit" THEN flatten_seq(lit.v) ELSE <<lit>>
flatten_seq(lits) ==
    IF lits = <<>> THEN <<>> ELSE flatten_deep(Head(lits)) \o flatten_seq(Tail(lits))

\* Mutant of property_names: the arguments are listed but not flattened.
property_names_unflattened(callback, properties) ==
    (IF callback = None THEN <<>> ELSE <<callback>>) \o properties

\* callback = callback if callback is not None else []
\* properties = flatten_deep([callback, properties])
property_names(callback, properties) ==
    flatten_deep(ListLit(<<IF callback = None THEN ListLit(<<>>) ELSE callback,
                           ListLit(properties)>>))

\* lambda value, key, item: key in properties
in_properties(names, key) == \E i \in 1..Len(names) : names[i] = key

\* The pairs of a sequence that pass a test, in order.
RECURSIVE select_pairs(_, _, _)
select_pairs(prs, names, keep) ==
    IF prs = <<>> THEN <<>>
    ELSE (IF in_properties(names, Head(prs).key) = keep THEN <<Head(prs)>> ELSE <<>>)
            \o select_pairs(Tail(prs), names, keep)

\* pick(obj, callback, *properties) for a callback that is not callable: a new
\* dict of the pairs of obj whose key is among the names.
pick(m, obj, callback, properties) ==
    NewObj(m, DictObj(select_pairs(iterator(m.heap, obj),
                                   property_names(callback, properties), TRUE)))

\* omit(obj, callback, *properties): a new dict of the pairs whose key is not.
omit(m, obj, callback, properties) ==
    NewObj(m, DictObj(select_pairs(iterator(m.heap, obj),
                                   property_names(callback, properties), FALSE)))

PropNames == {Chr("a"), Chr("b"), Chr("c"), Chr("d")}
\* The property arguments: flat lists of up to two names, and nested lists.
PropLits ==
    {ListLit(q) : q \in SeqsUpTo(PropNames, 2)}
    \cup {ListLit(<<ListLit(<<x>>), y>>) : x, y \in PropNames}
    \cup {ListLit(<<x, ListLit(<<ListLit(<<y>>)>>)>>) : x, y \in PropNames}
\* The call shapes: pick(obj, P), pick(obj, name, name), pick(obj).
PropArgs ==
    {[callback |-> P, properties |-> <<>>] : P \in PropLits}
    \cup {[callback |-> x, properties |-> <<y>>] : x, y \in PropNames}
    \cup {[callback |-> None, properties |-> <<>>]}
PickObjs == {o \in IterObjs : o.t = "dictlit"}

InitPick ==
    \E o \in PickObjs, pa \in PropArgs, f \in {"pick", "omit"} :
        LET a == Alloc(<<>>, o) IN
        /\ heap = a.h
        /\ heap0 = a.h
        /\ call = [fn |-> f, obj |-> a.val, callback |-> pa.callback,
                   properties |-> pa.properties]
        /\ pc = "call"
        /\ ret = NoRet
        /\ trace = <<>>

Pick ==
    /\ pc = "call" /\ call.fn = "pick"
    /\ Return(pick(Mach(heap), call.obj, call.callback, call.properties))

Omit ==
    /\ pc = "call" /\ call.fn = "omit"
    /\ Return(omit(Mach(heap), call.obj, call.callback, call.properties))

NextPick == Pick \/ Omit

SpecPick == InitPick /\ [][NextPick]_vars

RECURSIVE NamesIn(_)
\* The names that occur anywhere in a property argument.
NamesIn(lit) ==
    IF lit.t = "listlit" THEN UNION {NamesIn(lit.v[i]) : i \in 1..Len(lit.v)} ELSE {lit}

\* A function restricted to the keys in S.
Restrict(f, S) == [k \in DOMAIN f \cap S |-> f[k]]

\* C9: for a dict obj and a (possibly nested) list P of names, pick(obj, P) is a
\* new dict of exactly the pairs of obj whose key is in P and omit(obj, P) a new
\* dict of exactly the others: their key sets are disjoint and together are
\* obj's; obj is not mutated.
C9_PickOmit ==
    (/\ pc = "done"
     /\ call.fn \in {"pick", "omit"}
     /\ call.callback.t = "listlit"
     /\ call.properties = <<>>) =>
        /\ ret.exc = "ok"
        /\ ret.val # call.obj
        /\ heap[call.obj.v] = heap0[call.obj.v]
        /\ call.fn = "pick" =>
              After(ret.val).v = Restrict(Before(call.obj).v, NamesIn(call.callback))
        /\ call.fn = "omit" =>
              After(ret.val).v =
                  Restrict(Before(call.obj).v, Dom(call.obj) \ NamesIn(call.callback))
        /\ LET pk == pick(Mach(heap0), call.obj, call.callback, <<>>)
               om == omit(Mach(heap0), call.obj, call.callback, <<>>)
           IN /\ DOMAIN View(pk.m.heap, pk.val).v \cap DOMAIN View(om.m.heap, om.val).v = {}
              /\ DOMAIN View(pk.m.heap, pk.val).v \cup DOMAIN View(om.m.heap, om.val).v
                    = Dom(call.obj)

\* C9 witness: omit({'a': 1, 'b': 2, 'c': 3}, P) has returned {'b': 2} for a
\* nested list P naming 'a' and 'c'.
C9_Witness ==
    /\ Returned("omit")
    /\ call.callback.t = "listlit"
    /\ \E i \in 1..Len(call.callback.v) : call.callback.v[i].t = "listlit"
    /\ NamesIn(call.callback) = {Chr("a"), Chr("c")}
    /\ Before(call.obj).v = (Chr("a") :> PyInt(1)) @@ (Chr("b") :> PyInt(2))
                                @@ (Chr("c") :> PyInt(3))
    /\ After(ret.val).v = (Chr("b") :> PyInt(2))

----------------------------------------------------------------------------
(* parse_int.  int(text, base) is modelled on texts over the characters    *)
(* below (no sign, blank or underscore).                                   *)

is_string(x) == x.t = "str"

\* The value of a character as a digit (letters count from 10), -1 for none.
DigitVal(c) ==
    CASE c = "0" -> 0 [] c = "1" -> 1 [] c = "7" -> 7
      [] c = "a" -> 10 [] c = "b" -> 11 [] c = "c" -> 12 [] c = "e" -> 14
      [] c = "F" -> 15 [] c = "N" -> 23 [] c = "n" -> 23 [] c = "o" -> 24
      [] c = "x" -> 33
      [] OTHER -> -1

\* The marks of the exceptions int() raises.
ValueError == [t |-> "raise", v |-> 1]
TypeError == [t |-> "raise", v |-> 2]

\* The digits of a numeral once its base prefix (0x for 16, 0b for 2) is dropped.
StripPrefix(cs, base) ==
    IF /\ Len(cs) >= 2
       /\ cs[1] = "0"
       /\ \/ (base = 16 /\ cs[2] = "x")
          \/ (base = 2 /\ cs[2] = "b")
    THEN SubSeq(cs, 3, Len(cs))
    ELSE cs

RECURSIVE DigitsValue(_, _, _)
DigitsValue(cs, base, acc) ==
    IF cs = <<>> THEN acc
    ELSE DigitsValue(Tail(cs), base, acc * base + DigitVal(Head(cs)))

\* int(text, base): the integer, or ValueError for a base outside 2..36, an
\* empty numeral or a character that is no digit of the base.
int_text(cs, base) ==
    IF base < 2 \/ base > 36 THEN ValueError
    ELSE IF StripPrefix(cs, base) = <<>> THEN ValueError
    ELSE IF \E i \in 1..Len(StripPrefix(cs, base)) :
                \/ DigitVal(StripPrefix(cs, base)[i]) < 0
                \/ DigitVal(StripPrefix(cs, base)[i]) >= base
    THEN ValueError
    ELSE PyInt(DigitsValue(StripPrefix(cs, base), base, 0))

\* int(value): a text is read in base 10, an int is itself, None is a TypeError.
int_of(value) ==
    CASE value.t = "str" -> int_text(value.v, 10)
      [] value.t = "int" -> value
      [] OTHER -> TypeError

\* text_type(value).
text_type(value) ==
    CASE value.t = "str" -> value.v
      [] value.t = "int" -> <<CASE value.v = 0 -> "0" [] value.v = 1 -> "1" [] OTHER -> "7">>
      [] OTHER -> <<"N", "o", "n", "e">>

\* Mutant of sniff_radix: only a text with the 0x prefix counts as hexadecimal.
sniff_radix_prefix(value, radix) ==
    IF /\ radix = 0
       /\ is_string(value)
       /\ Len(value.v) >= 2 /\ value.v[1] = "0" /\ value.v[2] = "x"
       /\ int_text(value.v, 16).t = "int"
    THEN 16
    ELSE radix

\* if not radix and is_string(value): radix = 16 if int(value, 16) succeeds.
\* A radix of 0 stands for any falsy radix (None, 0).
sniff_radix(value, radix) ==
    IF radix = 0 /\ is_string(value) /\ int_text(value.v, 16).t = "int"
    THEN 16
    ELSE radix

\* if not radix: radix = 10
default_radix(radix) == IF radix = 0 THEN 10 ELSE radix

\* args = (value,) if radix == 10 else (text_type(value), radix); int(*args),
\* None on ValueError or TypeError.
parse_with(value, radix) ==
    IF (IF radix = 10 THEN int_of(value) ELSE int_text(text_type(value), radix)).t = "raise"
    THEN None
    ELSE IF radix = 10 THEN int_of(value) ELSE int_text(text_type(value), radix)

\* parse_int(value, radix=None).
parse_int(value, radix) == parse_with(value, default_radix(sniff_radix(value, radix)))

TextChars == {"0", "1", "x", "F", "a", "b", "c"}
ParseValues == {PyStr(cs) : cs \in SeqsUpTo(TextChars, MaxStrLen)}
                   \cup {PyInt(0), PyInt(1), PyInt(7), None}
Radixes == {0, 1, 2, 10, 16, 37}

InitParse ==
    \E value \in ParseValues, radix \in Radixes :
        /\ heap = <<>>
        /\ heap0 = <<>>
        /\ call = [fn |-> "parse_int", value |-> value, radix |-> radix]
        /\ pc = "call"
        /\ ret = NoRet
        /\ trace = <<>>

ParseInt ==
    /\ pc = "call" /\ call.fn = "parse_int"
    /\ ret' = Ok(parse_int(call.value, call.radix))
    /\ pc' = "done"
    /\ UNCHANGED <<heap, call, trace, heap0>>

NextParse == ParseInt

SpecParse == InitParse /\ [][NextParse]_vars

Text(cs) == PyStr(cs)
ParsedAs(value, radix, result) ==
    (Returned("parse_int") /\ call.value = value /\ call.radix = radix) => ret = Ok(result)

\* What C4 says apart from its 'abc' example: parse_int never raises, returns
\* an integer or None, parse_int('0xFF') is 255 and parse_int('10', 2) is 2.
C4_Total ==
    /\ Returned("parse_int") => ret.exc = "ok" /\ ret.val.t \in {"int", "none"}
    /\ ParsedAs(Text(<<"0", "x", "F", "F">>), 0, PyInt(255))
    /\ ParsedAs(Text(<<"1", "0">>), 2, PyInt(2))

----------------------------------------------------------------------------
(* The predicates.  The module runs under Python 2 and Python 3 (it goes   *)
(* through _compat); the two differ in what < <= > >= do on operands of    *)
(* different kinds, so the interpreter is part of a call.                  *)

is_boolean(x) == x.t = "bool"
\* is_number: an int (or long, float, Decimal) that is not a bool.
is_number(x) == ~is_boolean(x) /\ x.t = "int"

\* The code point order of the characters used in texts.
CharCode(c) ==
    CASE c = "0" -> 48 [] c = "1" -> 49 [] c = "7" -> 55 [] c = "F" -> 70
      [] c = "N" -> 78 [] c = "[" -> 91 [] c = "]" -> 93 [] c = "a" -> 97
      [] c = "b" -> 98 [] c = "c" -> 99 [] c = "e" -> 101 [] c = "n" -> 110
      [] c = "o" -> 111 [] c = "x" -> 120 [] c = "{" -> 123 [] c = "}" -> 125
      [] OTHER -> 0

RECURSIVE TextCmp(_, _)
\* cmp of two texts: -1, 0 or 1.
TextCmp(cs, ds) ==
    IF cs = <<>> /\ ds = <<>> THEN 0
    ELSE IF cs = <<>> THEN -1
    ELSE IF ds = <<>> THEN 1
    ELSE IF CharCode(Head(cs)) < CharCode(Head(ds)) THEN -1
    ELSE IF CharCode(Head(cs)) > CharCode(Head(ds)) THEN 1
    ELSE TextCmp(Tail(cs), Tail(ds))

Numeric(x) == x.t \in {"int", "bool"}
\* Python 2 orders values of different kinds: None first, then numbers, then
\* the others by the name of their type.
KindRank(h, x) ==
    CASE x.t = "none" -> 0
      [] Numeric(x) -> 1
      [] is_dict_in(h, x) -> 2
      [] is_list_in(h, x) -> 3
      [] OTHER -> 4

\* cmp(x, y) where an order exists: -1, 0 or 1; 2 where Python 3 has none
\* (operands of different kinds, or two None).
Cmp(py, h, x, y) ==
    IF Numeric(x) /\ Numeric(y)
    THEN (IF x.v < y.v THEN -1 ELSE IF x.v > y.v THEN 1 ELSE 0)
    ELSE IF x.t = "str" /\ y.t = "str" THEN TextCmp(x.v, y.v)
    ELSE IF py = 3 THEN 2
    ELSE IF KindRank(h, x) < KindRank(h, y) THEN -1
    ELSE IF KindRank(h, x) > KindRank(h, y) THEN 1
    ELSE 0

\* operator.le, lt, ge, gt applied to a cmp outcome.
OpHolds(op, c) ==
    CASE op = "le" -> c <= 0
      [] op = "lt" -> c < 0
      [] op = "ge" -> c >= 0
      [] OTHER -> c > 0

RECURSIVE monotone_scan(_, _, _, _, _)
\* is_monotone's loop over izip(value, islice(value, 1, None)) from pair i on:
\* the first pair that fails op ends it with False; a pair without an order
\* raises TypeError.
monotone_scan(py, h, items, op, i) ==
    IF i >= Len(items) THEN Ok(PyTrue)
    ELSE IF Cmp(py, h, items[i], items[i + 1]) = 2 THEN [exc |-> "TypeError", val |-> None]
    ELSE IF ~OpHolds(op, Cmp(py, h, items[i], items[i + 1])) THEN Ok(PyFalse)
    ELSE monotone_scan(py, h, items, op, i + 1)

\* is_monotone(value, op): a value that is not a list is wrapped in one.
is_monotone(py, h, value, op) ==
    monotone_scan(py, h, IF is_list_in(h, value) THEN h[value.v].items ELSE <<value>>, op, 1)

\* Mutant of is_decreasing: the strict operator is passed.
is_decreasing_strict(py, h, value) == is_monotone(py, h, value, "gt")

is_increasing(py, h, value) == is_monotone(py, h, value, "le")
is_strictly_increasing(py, h, value) == is_monotone(py, h, value, "lt")
is_decreasing(py, h, value) == is_monotone(py, h, value, "ge")
is_strictly_decreasing(py, h, value) == is_monotone(py, h, value, "gt")

is_even(x) == Ok(PyBool(is_number(x) /\ x.v % 2 = 0))
is_odd(x) == Ok(PyBool(is_number(x) /\ x.v % 2 # 0))
is_positive(x) == Ok(PyBool(is_number(x) /\ x.v > 0))
is_negative(x) == Ok(PyBool(is_number(x) /\ x.v < 0))

RECURSIVE JsonText(_)
\* json.loads succeeds on a text: here a numeral of 1s, [], {} or a JSON
\* value in brackets.
JsonText(cs) ==
    \/ cs # <<>> /\ \A i \in 1..Len(cs) : cs[i] = "1"
    \/ cs = <<"[", "]">>
    \/ cs = <<"{", "}">>
    \/ /\ Len(cs) >= 3
       /\ cs[1] = "[" /\ cs[Len(cs)] = "]"
       /\ JsonText(SubSeq(cs, 2, Len(cs) - 1))

\* is_json(value): json.loads(value) in a try; any Exception gives False.
is_json(x) == Ok(PyBool(is_string(x) /\ JsonText(x.v)))

MonotoneFns == {"is_increasing", "is_strictly_increasing",
                "is_decreasing", "is_strictly_decreasing"}
NumberFns == {"is_even", "is_odd", "is_positive", "is_negative"}

PredScalars == {None, PyTrue, PyInt(-1), PyInt(0), PyInt(1), PyInt(2), PyInt(3),
                Chr("a"), Chr("b"), PyStr(<<"[", "1", "]">>), PyStr(<<"[", "1">>),
                PyStr(<<"{", "}">>), PyStr(<<"1", "1">>), PyStr(<<>>)}
PredElems == {PyInt(1), PyInt(2), PyInt(3), Chr("a"), None}
PredValues == PredScalars \cup {ListLit(q) : q \in SeqsUpTo(PredElems, MaxLen)}
               \cup {DictLit(<<>>)}

InitPred ==
    \E x \in PredValues, f \in MonotoneFns \cup NumberFns \cup {"is_json"}, py \in {2, 3} :
        LET a == Alloc(<<>>, x) IN
        /\ heap = a.h
        /\ heap0 = a.h
        /\ call = [fn |-> f, value |-> a.val, py |-> py]
        /\ pc = "call"
        /\ ret = NoRet
        /\ trace = <<>>

Answer(r) ==
    /\ ret' = r
    /\ pc' = "done"
    /\ UNCHANGED <<heap, call, trace, heap0>>

IsMonotone ==
    /\ pc = "call" /\ call.fn \in MonotoneFns
    /\ Answer(CASE call.fn = "is_increasing" -> is_increasing(call.py, heap, call.value)
                [] call.fn = "is_strictly_increasing" ->
                      is_strictly_increasing(call.py, heap, call.value)
                [] call.fn = "is_decreasing" -> is_decreasing(call.py, heap, call.value)
                [] OTHER -> is_strictly_decreasing(call.py, heap, call.value))

IsNumberKind ==
    /\ pc = "call" /\ call.fn \in NumberFns
    /\ Answer(CASE call.fn = "is_even" -> is_even(call.value)
                [] call.fn = "is_odd" -> is_odd(call.value)
                [] call.fn = "is_positive" -> is_positive(call.value)
                [] OTHER -> is_negative(call.value))

IsJson ==
    /\ pc = "call" /\ call.fn = "is_json"
    /\ Answer(is_json(call.value))

NextPred == IsMonotone \/ IsNumberKind \/ IsJson

SpecPred == InitPred /\ [][NextPred]_vars

\* C10: the predicates are total: on any input, lists of elements of mixed
\* kinds included, they return a boolean and never raise; a value that is not
\* a number gives False from is_even, is_odd, is_positive and is_negative, and
\* a value that is not a text gives False from is_json.
C10_PredicatesTotal ==
    (pc = "done" /\ call.fn \in MonotoneFns \cup NumberFns \cup {"is_json"}) =>
        /\ ret.exc = "ok"
        /\ ret.val \in {PyTrue, PyFalse}
        /\ (call.fn \in NumberFns /\ call.value.t # "int") => ret.val = PyFalse
        /\ (call.fn = "is_json" /\ call.value.t # "str") => ret.val = PyFalse

\* x <= y, x < y, x >= y, x > y as Python evaluates them, given cmp(x, y) = c;
\* no order (c = 2) makes none of them true.
Related(fn, c) ==
    CASE fn = "is_increasing" -> c \in {-1, 0}
      [] fn = "is_strictly_increasing" -> c = -1
      [] fn = "is_decreasing" -> c \in {0, 1}
      [] OTHER -> c = 1

\* The sequence a monotonicity predicate looks at: the list, or the value
\* that is not a list standing alone.
AsSequence(x) == IF is_list_in(heap0, x) THEN heap0[x.v].items ELSE <<x>>
IntList(x, ns) ==
    is_list_in(heap0, x) /\ heap0[x.v].items = [i \in 1..Len(ns) |-> PyInt(ns[i])]

----------------------------------------------------------------------------
(* clone_deep and clone as the caller sees them: the caller clones a       *)
(* container, then writes into the clone, at any depth, or clones the      *)
(* clone once more.                                                        *)

MaxMutations == 2

CloneObjs == {ListLit(<<>>),
              DictLit(<<>>),
              ListLit(<<PyInt(1), ListLit(<<PyInt(2)>>)>>),
              ListLit(<<DictLit(<<Pair(Chr("a"), ListLit(<<PyInt(1)>>))>>)>>),
              DictLit(<<Pair(Chr("a"), PyInt(1))>>),
              DictLit(<<Pair(Chr("a"), DictLit(<<Pair(Chr("b"), PyInt(1))>>)),
                        Pair(Chr("b"), ListLit(<<>>))>>),
              DictLit(<<Pair(Chr("a"), ListLit(<<DictLit(<<>>), PyInt(2)>>))>>)}
\* What the caller writes into the clone: clone[key] = value.
CloneKeys == {PyInt(0), PyInt(1), Chr("a"), Chr("c")}
CloneWrites == {None, PyInt(7)}

InitClone ==
    \E x \in CloneObjs :
        LET a == Alloc(<<>>, x) IN
        /\ heap = a.h
        /\ heap0 = a.h
        /\ call = [fn |-> "clone_deep", value |-> a.val]
        /\ pc = "call"
        /\ ret = NoRet
        /\ trace = <<>>

CloneDeep ==
    /\ pc = "call"
    /\ call.fn = "clone_deep"
    /\ LET r == clone_deep(Mach(heap), call.value) IN
       /\ heap' = r.m.heap
       /\ ret' = [exc |-> r.m.exc, val |-> r.val]
    /\ pc' = "cloned"
    /\ UNCHANGED <<call, trace, heap0>>

\* The caller's own statement target[k] = v, or del target[:] / target.clear(),
\* on the clone or on a container reached through it.
MutateClone ==
    /\ pc \in {"cloned", "mutated"}
    /\ call.fn = "clone_deep"
    /\ Len(trace) < MaxMutations
    /\ \E a \in Reach(heap, ret.val) :
          /\ \/ \E k \in CloneKeys, v \in CloneWrites :
                   LET m == set_item(Mach(heap), Ref(a), k, v, TRUE) IN
                   /\ m.exc = "ok"
                   /\ heap' = m.heap
             \/ heap' = [heap EXCEPT ![a].items = <<>>]
          /\ trace' = Append(trace, a)
    /\ pc' = "mutated"
    /\ UNCHANGED <<call, ret, heap0>>

\* clone(c) for the clone c that clone_deep returned.
CloneOfClone ==
    /\ pc = "cloned"
    /\ call.fn = "clone_deep"
    /\ LET r == clone(Mach(heap), ret.val, FALSE) IN
       /\ heap' = r.m.heap
       /\ ret' = [exc |-> r.m.exc, val |-> r.val]
    /\ pc' = "recloned"
    /\ UNCHANGED <<call, trace, heap0>>

NextClone == CloneDeep \/ MutateClone \/ CloneOfClone

SpecClone == InitClone /\ [][NextClone]_vars

\* C11: clone_deep(x) returns a container structurally equal to x that is not
\* x and shares no container with it; whatever the caller then writes into the
\* clone, at the top level or in a nested container, x holds what it held;
\* clone(clone_deep(x)) is structurally equal to x.
C11_CloneDeep ==
    (call.fn = "clone_deep" /\ pc \in {"cloned", "mutated", "recloned"}) =>
        /\ \A a \in Reach(heap0, call.value) : heap[a] = heap0[a]
        /\ After(call.value) = Before(call.value)
        /\ pc = "cloned" =>
              /\ ret.exc = "ok"
              /\ is_ref(ret.val)
              /\ ret.val # call.value
              /\ After(ret.val) = Before(call.value)
              /\ heap[ret.val.v].kind = heap0[call.value.v].kind
              /\ Reach(heap, ret.val) \cap Reach(heap0, call.value) = {}
        /\ pc = "recloned" =>
              /\ ret.exc = "ok"
              /\ After(ret.val) = Before(call.value)

\* C11 witness: the caller has written into a nested container of the clone
\* of a nested x, and the clone no longer equals x.
C11_Witness ==
    /\ call.fn = "clone_deep"
    /\ pc = "mutated"
    /\ \E i \in 1..Len(trace) : trace[i] # ret.val.v /\ heap[trace[i]].items # <<>>
    /\ After(ret.val) # Before(call.value)
    /\ Cardinality(Reach(heap0, call.value)) >= 2

----------------------------------------------------------------------------
(* has and is_equal.  A comparator is a function of (a, b): one that       *)
(* returns None for every pair, or one that returns a fixed result.        *)

Comparator(cb, a, b) ==
    CASE cb.v = "defer" -> None
      [] cb.v = "true" -> PyTrue
      [] cb.v = "false" -> PyFalse
      [] OTHER -> PyInt(0)

RECURSIVE PyEq(_, _, _)
\* a == b as Python evaluates it: numbers by value (True == 1), lists
\* element by element, dicts key by key, anything else by kind and value.
PyEq(h, x, y) ==
    IF Numeric(x) /\ Numeric(y) THEN x.v = y.v
    ELSE IF is_ref(x) /\ is_ref(y) THEN
        /\ h[x.v].kind = h[y.v].kind
        /\ Len(h[x.v].items) = Len(h[y.v].items)
        /\ \A i \in 1..Len(h[x.v].items) :
              IF h[x.v].kind = "list"
              THEN PyEq(h, h[x.v].items[i], h[y.v].items[i])
              ELSE /\ KeyIndex(h[y.v].items, h[x.v].items[i].key) # 0
                   /\ PyEq(h, h[x.v].items[i].val,
                           h[y.v].items[KeyIndex(h[y.v].items, h[x.v].items[i].key)].val)
    ELSE x = y

\* has(obj, key): key in (key for key, value in iterator(obj)).
has(h, obj, key) ==
    \E i \in 1..Len(iterator(h, obj)) : iterator(h, obj)[i].key = key

\* The test of is_equal's elif: a comparator, and two lists or two dicts of
\* one length.
same_shape(h, a, b, callback) ==
    /\ callable(callback)
    /\ is_ref(a) /\ is_ref(b)
    /\ h[a.v].kind = h[b.v].kind
    /\ Len(h[a.v].items) = Len(h[b.v].items)

RECURSIVE is_equal(_, _, _, _)
RECURSIVE is_equal_walk(_, _, _, _, _, _)

\* if not equal: break, else the next pair of a.
is_equal_next(h, a, b, callback, i, equal) ==
    IF ~Truthy(h, equal) THEN equal ELSE is_equal_walk(h, a, b, callback, i + 1, equal)

\* is_equal's loop over iterator(a) from the i-th pair on; equal is what the
\* pairs before it left.
is_equal_walk(h, a, b, callback, i, equal) ==
    IF i > Len(iterator(h, a)) THEN equal
    ELSE is_equal_next(h, a, b, callback, i,
                       IF has(h, b, iterator(h, a)[i].key)
                       THEN is_equal(h, iterator(h, a)[i].val,
                                     get_item(h, b, iterator(h, a)[i].key, None), callback)
                       ELSE PyFalse)

\* The branches of is_equal, equal being the comparator's result or None.
is_equal_branch(h, a, b, callback, equal) ==
    IF equal # None THEN equal
    ELSE IF same_shape(h, a, b, callback) THEN is_equal_walk(h, a, b, callback, 1, None)
    ELSE PyBool(PyEq(h, a, b))

\* is_equal(a, b, callback): the value returned.
is_equal(h, a, b, callback) ==
    is_equal_branch(h, a, b, callback,
                    IF callable(callback) THEN Comparator(callback, a, b) ELSE None)

EqualValues == {None, PyTrue, PyInt(1), PyInt(2), Chr("a"),
                ListLit(<<>>), DictLit(<<>>),
                ListLit(<<PyInt(1)>>), ListLit(<<PyInt(2)>>),
                ListLit(<<PyInt(1), PyInt(2)>>),
                ListLit(<<ListLit(<<>>)>>),
                ListLit(<<ListLit(<<PyInt(1)>>)>>),
                ListLit(<<DictLit(<<Pair(Chr("a"), PyInt(1))>>)>>),
                DictLit(<<Pair(Chr("a"), PyInt(1))>>),
                DictLit(<<Pair(Chr("b"), PyInt(1))>>),
                DictLit(<<Pair(Chr("a"), PyInt(2))>>),
                DictLit(<<Pair(Chr("a"), PyInt(1)), Pair(Chr("b"), PyInt(2))>>),
                DictLit(<<Pair(Chr("b"), PyInt(2)), Pair(Chr("a"), PyInt(1))>>),
                DictLit(<<Pair(Chr("a"), DictLit(<<>>))>>),
                DictLit(<<Pair(Chr("a"), ListLit(<<PyInt(1)>>))>>)}
Comparators == {None, PyFunc("defer"), PyFunc("true"), PyFunc("false"), PyFunc("zero")}

InitEqual ==
    \E x \in EqualValues, y \in EqualValues, cb \in Comparators :
        LET a == AllocSeq(<<>>, <<x, y>>) IN
        /\ heap = a.h
        /\ heap0 = a.h
        /\ call = [fn |-> "is_equal", a |-> a.vals[1], b |-> a.vals[2], callback |-> cb]
        /\ pc = "call"
        /\ ret = NoRet
        /\ trace = <<>>

IsEqual ==
    /\ pc = "call"
    /\ call.fn = "is_equal"
    /\ ret' = Ok(is_equal(heap, call.a, call.b, call.callback))
    /\ pc' = "done"
    /\ UNCHANGED <<heap, call, trace, heap0>>

NextEqual == IsEqual

SpecEqual == InitEqual /\ [][NextEqual]_vars

\* C15: with a comparator that returns None for every pair, is_equal(a, b,
\* comparator) returns a boolean, the one is_equal(a, b) returns, which is
\* a == b, for scalars, lists and dicts, empty and nested ones included; a
\* result other than None that the comparator gives for (a, b) is returned as
\* it is.
C15_IsEqualComparator ==
    (pc = "done" /\ call.fn = "is_equal") =>
        /\ ret.exc = "ok"
        /\ call.callback = None =>
              ret.val = PyBool(PyEq(heap, call.a, call.b))
        /\ call.callback = PyFunc("defer") =>
              /\ ret.val \in {PyTrue, PyFalse}
              /\ ret.val = is_equal(heap, call.a, call.b, None)
        /\ (callable(call.callback) /\ call.callback # PyFunc("defer")) =>
              ret.val = Comparator(call.callback, call.a, call.b)

====
